---- MODULE Spec2Model ----
(***************************************************************************)
(* Model of ecs-task-protection (package ecstp).                           *)
(*                                                                         *)
(* Two entry-point generations live in the repository:                     *)
(*   v1  protection.go      GetTaskArn() and UpdateTaskProtection(input)   *)
(*                          returning only an error (imperative mode);     *)
(*   v2  unnamed/part_003   Client.GetTaskArn(ctx) and                     *)
(*                          Client.UpdateTaskProtection(ctx, input)       *)
(*                          returning the remote output (value mode).      *)
(*                                                                         *)
(* One behaviour is one invocation of one of the four functions.  The      *)
(* invocation is cut at its two blocking network operations: the GET on    *)
(* the metadata endpoint and the ECS UpdateTaskProtection call.  A Go      *)
(* pointer is a sequence of length 0 (nil) or 1.                           *)
(***************************************************************************)
EXTENDS Integers, Sequences, FiniteSets, TLC

VARIABLES
    mode,           \* "v1" (protection.go) or "v2" (Client, part_003)
    op,             \* "GetTaskArn" or "UpdateTaskProtection"
    env,            \* pointer: value of ECS_CONTAINER_METADATA_URI_V4, Nil = unset
    override,       \* Client.MetadataEndpointOverride
    input,          \* UpdateTaskProtectionInput
    cancelled,      \* the caller's context is done
    pc,             \* "start", "fetching", "calling", "done"
    fetched,        \* URLs the metadata GET was issued to, in order
    httpRes,        \* pointer: what the metadata GET returned
    arnRet,         \* pointer: what GetTaskArn returned, [md, err]
    metadata,       \* pointer: local `metadata` of UpdateTaskProtection
    requests,       \* ecs.UpdateTaskProtectionInput values sent, in order
    output,         \* pointer: what the ECS call returned, [out, err]
    ret,            \* what the invocation returned to its caller
    cancelAtFetch,  \* the context was done when a metadata GET in flight completed
    cancelAtRemote  \* the context was done when the ECS call completed

vars == <<mode, op, env, override, input, cancelled, pc, fetched, httpRes,
          arnRet, metadata, requests, output, ret, cancelAtFetch, cancelAtRemote>>

(***************************************************************************)
(* Bounds and value sets                                                   *)
(***************************************************************************)
MaxFailures == 2

Nil == <<>>
Ptr(v) == <<v>>
Deref(p) == p[1]

RECURSIVE SeqsUpTo(_, _)
SeqsUpTo(S, n) ==
    IF n = 0 THEN {<<>>}
    ELSE LET shorter == SeqsUpTo(S, n - 1)
         IN shorter \cup {Append(s, x) : s \in {t \in shorter : Len(t) = n - 1}, x \in S}

MetadataBody == [Cluster : {"", "c1"}, TaskARN : {"", "t1"}]

UpdateTaskProtectionInput ==
    [Metadata : {Nil} \cup {Ptr(m) : m \in MetadataBody},
     Protect : BOOLEAN,
     ExpiresInMinutes : {Nil, Ptr(0), Ptr(60), Ptr(2881)}]

EnvValues == {Nil, Ptr(""), Ptr("http://169.254.170.2/v4/id")}
OverrideValues == {"", "http://127.0.0.1:8080"}

\* Errors are values with a kind and the text of Error().
NoErr == [kind |-> "", msg |-> ""]
ErrNoMetadataURI ==
    [kind |-> "config", msg |-> "unable to retrieve Task ARN - can't get Metadata URI"]
ErrNetwork == [kind |-> "network", msg |-> "connection refused"]
ErrRead == [kind |-> "read", msg |-> "unexpected EOF"]
ErrDecode == [kind |-> "decode", msg |-> "invalid character"]
ErrCanceled == [kind |-> "canceled", msg |-> "context canceled"]
ErrRemote == [kind |-> "remote", msg |-> "api error"]

\* A JSON document served by the metadata endpoint: an object with the keys
\* it carries (Nil = key absent), the literal null, or bytes that do not parse.
JSONBodies ==
    [kind : {"object"}, Cluster : {Nil, Ptr("c1")}, TaskARN : {Nil, Ptr("t1")}]
    \cup {[kind |-> "null", Cluster |-> Nil, TaskARN |-> Nil],
          [kind |-> "invalid", Cluster |-> Nil, TaskARN |-> Nil]}

EmptyBody == [kind |-> "invalid", Cluster |-> Nil, TaskARN |-> Nil]

\* What the HTTP exchange can produce: a transport error, a body that cannot
\* be read to its end, or a response with any status.
HTTPOutcomes ==
    {[err |-> ErrNetwork, status |-> 0, body |-> EmptyBody],
     [err |-> ErrRead, status |-> 200, body |-> EmptyBody]}
    \cup [err : {NoErr}, status : {200, 404, 500}, body : JSONBodies]

ProtectedTask == [TaskArn : {Ptr("t1")}, ProtectionEnabled : BOOLEAN]
Failure == [Arn : {Ptr("t1")}, Reason : {Nil, Ptr("X"), Ptr("Y")}]

UpdateTaskProtectionOutput ==
    [ProtectedTasks : SeqsUpTo(ProtectedTask, 1),
     Failures : SeqsUpTo(Failure, MaxFailures)]

\* What the ECS API can answer: (nil, err) or (output, nil).
RemoteOutcomes ==
    {[out |-> Nil, err |-> ErrRemote]}
    \cup {[out |-> Ptr(o), err |-> NoErr] : o \in UpdateTaskProtectionOutput}

NoRet == [kind |-> "none", md |-> Nil, out |-> Nil, err |-> NoErr]

(***************************************************************************)
(* Pure steps of the code                                                  *)
(***************************************************************************)
\* os.Getenv in place of os.LookupEnv: an unset variable reads as ""
LookupEnv_Getenv(e) == [value |-> IF e = Nil THEN "" ELSE Deref(e), ok |-> TRUE]

\* os.LookupEnv
LookupEnv(e) == [value |-> IF e = Nil THEN "" ELSE Deref(e), ok |-> e # Nil]

\* v1 GetTaskArn: where the metadata endpoint comes from
EnvEndpoint(e) == LookupEnv(e)

\* v2 Client.GetTaskArn: where the metadata endpoint comes from
ClientEndpoint(ov, e) ==
    IF ov = "" THEN LookupEnv(e) ELSE [value |-> ov, ok |-> TRUE]

\* A URL without scheme and host is refused by the transport before anything
\* is sent.
Dialable(url) == url # "/task"

ErrScheme == [kind |-> "network", msg |-> "unsupported protocol scheme"]
NotSent == [err |-> ErrScheme, status |-> 0, body |-> EmptyBody]

\* v1: resty client.R().Get(url): the request carries no caller context
RestyGet(ctxDone, url, o) == IF ~Dialable(url) THEN NotSent ELSE o

\* v2: http.NewRequestWithContext(ctx, ...) then http.DefaultClient.Do and
\* io.ReadAll: a context that is done ends the exchange with its error
HTTPDo(ctxDone, url, o) ==
    IF ~Dialable(url) THEN NotSent
    ELSE IF ctxDone THEN [err |-> ErrCanceled, status |-> 0, body |-> EmptyBody]
    ELSE o

\* json.Unmarshal(b, &metadata) with metadata a nil *MetadataBody
Unmarshal(b) ==
    CASE b.kind = "invalid" -> [md |-> Nil, err |-> ErrDecode]
      [] b.kind = "null" -> [md |-> Nil, err |-> NoErr]
      [] OTHER ->
            [md |-> Ptr([Cluster |-> IF b.Cluster = Nil THEN "" ELSE Deref(b.Cluster),
                         TaskARN |-> IF b.TaskARN = Nil THEN "" ELSE Deref(b.TaskARN)]),
             err |-> NoErr]

\* GetTaskArn after the GET has returned: error check, then decode of the body
DecodeResponse(res) ==
    IF res.err # NoErr THEN [md |-> Nil, err |-> res.err] ELSE Unmarshal(res.body)

\* the error check after GetTaskArn left out
GetTaskArnFailed_Unchecked(g) == FALSE

\* `if err != nil { return err }` after GetTaskArn
GetTaskArnFailed(g) == g.err # NoErr

\* a request builder that validates the expiry locally and drops what is
\* outside [1, 2880]
BuildRequest_Validated(md, in) ==
    [Cluster |-> Ptr(md.Cluster),
     Tasks |-> <<md.TaskARN>>,
     ProtectionEnabled |-> in.Protect,
     ExpiresInMinutes |->
        IF in.ExpiresInMinutes # Nil
           /\ (Deref(in.ExpiresInMinutes) < 1 \/ Deref(in.ExpiresInMinutes) > 2880)
        THEN Nil ELSE in.ExpiresInMinutes]

\* the ecs.UpdateTaskProtectionInput built from metadata and input
BuildRequest(md, in) ==
    [Cluster |-> Ptr(md.Cluster),
     Tasks |-> <<md.TaskARN>>,
     ProtectionEnabled |-> in.Protect,
     ExpiresInMinutes |-> in.ExpiresInMinutes]

\* The ECS client call under a context: a done context ends it with its error
RemoteUpdateTaskProtection(ctxDone, o) ==
    IF ctxDone THEN [out |-> Nil, err |-> ErrCanceled] ELSE o

\* an interpretation that treats failures as fatal for a disable request too
InterpretOutput_AnyFailure(res, protect) ==
    IF res.err # NoErr
    THEN [kind |-> "error", md |-> Nil, out |-> Nil, err |-> res.err]
    ELSE LET failures == Deref(res.out).Failures
         IN IF Len(failures) > 0
            THEN IF failures[1].Reason = Nil
                 THEN [kind |-> "panic", md |-> Nil, out |-> Nil, err |-> NoErr]
                 ELSE [kind |-> "error", md |-> Nil, out |-> Nil,
                       err |-> [kind |-> "protect",
                                msg |-> "failed to protect task: " \o Deref(failures[1].Reason)]]
            ELSE [kind |-> "ok", md |-> Nil, out |-> Nil, err |-> NoErr]

\* v1 UpdateTaskProtection after the ECS call returned
InterpretOutput(res, protect) ==
    IF res.err # NoErr
    THEN [kind |-> "error", md |-> Nil, out |-> Nil, err |-> res.err]
    ELSE LET failures == Deref(res.out).Failures
         IN IF Len(failures) > 0 /\ protect
            THEN IF failures[1].Reason = Nil
                 THEN [kind |-> "panic", md |-> Nil, out |-> Nil, err |-> NoErr]
                 ELSE [kind |-> "error", md |-> Nil, out |-> Nil,
                       err |-> [kind |-> "protect",
                                msg |-> "failed to protect task: " \o Deref(failures[1].Reason)]]
            ELSE [kind |-> "ok", md |-> Nil, out |-> Nil, err |-> NoErr]

\* a value-mode return that turns reported failures into an error
ClientReturn_FailuresFatal(res) ==
    IF res.err = NoErr /\ Len(Deref(res.out).Failures) > 0
    THEN [kind |-> "error", md |-> Nil, out |-> Nil,
          err |-> [kind |-> "protect", msg |-> "failed to protect task"]]
    ELSE [kind |-> IF res.err = NoErr THEN "ok" ELSE "error",
          md |-> Nil, out |-> res.out, err |-> res.err]

\* v2 Client.UpdateTaskProtection returns the ECS call's pair as it is
ClientReturn(res) ==
    [kind |-> IF res.err = NoErr THEN "ok" ELSE "error",
     md |-> Nil, out |-> res.out, err |-> res.err]

\* what GetTaskArn hands to its caller
ArnReturn(g) ==
    [kind |-> IF g.err = NoErr THEN "ok" ELSE "error",
     md |-> g.md, out |-> Nil, err |-> g.err]

PanicRet == [kind |-> "panic", md |-> Nil, out |-> Nil, err |-> NoErr]

(***************************************************************************)
(* Initial states: one invocation about to start                           *)
(***************************************************************************)
DefaultInput == [Metadata |-> Nil, Protect |-> FALSE, ExpiresInMinutes |-> Nil]

Init ==
    /\ mode \in {"v1", "v2"}
    /\ op \in {"GetTaskArn", "UpdateTaskProtection"}
    /\ env \in EnvValues
    /\ override \in (IF mode = "v2" THEN OverrideValues ELSE {""})
    /\ input \in (IF op = "UpdateTaskProtection"
                  THEN UpdateTaskProtectionInput ELSE {DefaultInput})
    /\ cancelled = FALSE
    /\ pc = "start"
    /\ fetched = <<>>
    /\ httpRes = Nil
    /\ arnRet = Nil
    /\ metadata = Nil
    /\ requests = <<>>
    /\ output = Nil
    /\ ret = NoRet
    /\ cancelAtFetch = FALSE
    /\ cancelAtRemote = FALSE

(***************************************************************************)
(* Actions                                                                 *)
(***************************************************************************)
\* return from the invocation
Return(r) ==
    /\ ret' = r
    /\ pc' = "done"

\* GetTaskArn up to the point where the GET is in flight
StartFetch(ep) ==
    IF ~ep.ok
    THEN /\ arnRet' = Ptr([md |-> Nil, err |-> ErrNoMetadataURI])
         /\ Return(ArnReturn([md |-> Nil, err |-> ErrNoMetadataURI]))
         /\ UNCHANGED fetched
    ELSE /\ fetched' = Append(fetched, ep.value \o "/task")
         /\ pc' = "fetching"
         /\ UNCHANGED <<arnRet, ret>>

\* UpdateTaskProtection from the metadata pointer to the ECS call in flight
InvokeRemote(md) ==
    IF md = Nil
    THEN /\ Return(PanicRet)
         /\ UNCHANGED <<metadata, requests>>
    ELSE /\ metadata' = md
         /\ requests' = Append(requests, BuildRequest(Deref(md), input))
         /\ pc' = "calling"
         /\ UNCHANGED ret

\* GetTaskArn and its caller once the GET has returned `res`
FinishFetch(res) ==
    LET g == DecodeResponse(res)
    IN /\ httpRes' = Ptr(res)
       /\ arnRet' = Ptr(g)
       /\ cancelAtFetch' = (cancelled /\ Dialable(fetched[Len(fetched)]))
       /\ IF op = "GetTaskArn" \/ GetTaskArnFailed(g)
          THEN /\ Return(ArnReturn(g))
               /\ UNCHANGED <<metadata, requests>>
          ELSE InvokeRemote(g.md)

\* v1: GetTaskArn(), directly or as the first statement of UpdateTaskProtection
GetTaskArnCall ==
    /\ pc = "start"
    /\ mode = "v1"
    /\ StartFetch(EnvEndpoint(env))
    /\ UNCHANGED <<mode, op, env, override, input, cancelled, httpRes, metadata,
                   requests, output, cancelAtFetch, cancelAtRemote>>

\* v2: c.GetTaskArn(ctx), directly or because input.Metadata is nil
ClientGetTaskArnCall ==
    /\ pc = "start"
    /\ mode = "v2"
    /\ op = "GetTaskArn" \/ input.Metadata = Nil
    /\ StartFetch(ClientEndpoint(override, env))
    /\ UNCHANGED <<mode, op, env, override, input, cancelled, httpRes, metadata,
                   requests, output, cancelAtFetch, cancelAtRemote>>

\* v2: c.UpdateTaskProtection(ctx, input) with input.Metadata supplied
ClientUpdateTaskProtectionCall ==
    /\ pc = "start"
    /\ mode = "v2"
    /\ op = "UpdateTaskProtection"
    /\ input.Metadata # Nil
    /\ InvokeRemote(input.Metadata)
    /\ UNCHANGED <<mode, op, env, override, input, cancelled, fetched, httpRes,
                   arnRet, output, cancelAtFetch, cancelAtRemote>>

\* v1: the resty GET returns
GetTaskArnReturn ==
    /\ pc = "fetching"
    /\ mode = "v1"
    /\ \E o \in HTTPOutcomes :
          FinishFetch(RestyGet(cancelled, fetched[Len(fetched)], o))
    /\ UNCHANGED <<mode, op, env, override, input, cancelled, fetched, output,
                   cancelAtRemote>>

\* v2: http.DefaultClient.Do and io.ReadAll return
ClientGetTaskArnReturn ==
    /\ pc = "fetching"
    /\ mode = "v2"
    /\ \E o \in HTTPOutcomes :
          FinishFetch(HTTPDo(cancelled, fetched[Len(fetched)], o))
    /\ UNCHANGED <<mode, op, env, override, input, cancelled, fetched, output,
                   cancelAtRemote>>

\* v1: input.Client.UpdateTaskProtection returns; the result is interpreted
UpdateTaskProtectionReturn ==
    /\ pc = "calling"
    /\ mode = "v1"
    /\ \E o \in RemoteOutcomes :
          LET res == RemoteUpdateTaskProtection(cancelled, o)
          IN /\ output' = Ptr(res)
             /\ Return(InterpretOutput(res, input.Protect))
    /\ cancelAtRemote' = cancelled
    /\ UNCHANGED <<mode, op, env, override, input, cancelled, fetched, httpRes,
                   arnRet, metadata, requests, cancelAtFetch>>

\* v2: c.ECSClient.UpdateTaskProtection returns; the pair is returned as it is
ClientUpdateTaskProtectionReturn ==
    /\ pc = "calling"
    /\ mode = "v2"
    /\ \E o \in RemoteOutcomes :
          LET res == RemoteUpdateTaskProtection(cancelled, o)
          IN /\ output' = Ptr(res)
             /\ Return(ClientReturn(res))
    /\ cancelAtRemote' = cancelled
    /\ UNCHANGED <<mode, op, env, override, input, cancelled, fetched, httpRes,
                   arnRet, metadata, requests, cancelAtFetch>>

\* the caller cancels the context it passed (v1 GetTaskArn takes none)
Cancel ==
    /\ pc # "done"
    /\ ~cancelled
    /\ ~(mode = "v1" /\ op = "GetTaskArn")
    /\ cancelled' = TRUE
    /\ UNCHANGED <<mode, op, env, override, input, pc, fetched, httpRes, arnRet,
                   metadata, requests, output, ret, cancelAtFetch, cancelAtRemote>>

Next ==
    \/ GetTaskArnCall
    \/ ClientGetTaskArnCall
    \/ ClientUpdateTaskProtectionCall
    \/ GetTaskArnReturn
    \/ ClientGetTaskArnReturn
    \/ UpdateTaskProtectionReturn
    \/ ClientUpdateTaskProtectionReturn
    \/ Cancel

Spec == Init /\ [][Next]_vars

TypeOK ==
    /\ pc \in {"start", "fetching", "calling", "done"}
    /\ Len(fetched) <= 1
    /\ ret.kind \in {"none", "ok", "error", "panic"}

(***************************************************************************)
(* Vocabulary of the properties                                            *)
(***************************************************************************)
Imperative == mode = "v1" /\ op = "UpdateTaskProtection"
ValueReturning == mode = "v2" /\ op = "UpdateTaskProtection"
Done == pc = "done"
RemoteAnswered == output # Nil /\ Deref(output).err = NoErr
RemoteFailures == Deref(Deref(output).out).Failures
IdentitySupplied == op = "UpdateTaskProtection" /\ input.Metadata # Nil
FetchAnswered == httpRes # Nil /\ Deref(httpRes).err = NoErr
\* GetTaskArn returned an identity
IdentityResolved ==
    arnRet # Nil /\ Deref(arnRet).err = NoErr /\ Deref(arnRet).md # Nil
IdentityFailed == arnRet # Nil /\ Deref(arnRet).err # NoErr
\* the entry point takes its identity from the input rather than GetTaskArn
UsesSupplied == ValueReturning /\ input.Metadata # Nil

(***************************************************************************)
(* C1: in imperative mode, when the ECS call answers without error, protect *)
(* is true and the failures are non-empty, the call returns an error whose  *)
(* text is "failed to protect task: " followed by the first failure's       *)
(* reason, for every failures sequence of length >= 1.                      *)
(***************************************************************************)
C1_FirstFailureReason ==
    (Imperative /\ Done /\ RemoteAnswered /\ input.Protect /\ Len(RemoteFailures) >= 1)
        => /\ ret.kind = "error"
           /\ ret.err.msg = "failed to protect task: " \o Deref(RemoteFailures[1].Reason)

\* The same statement over the failures whose first reason is present.
FirstReasonWhenPresent ==
    (Imperative /\ Done /\ RemoteAnswered /\ input.Protect /\ Len(RemoteFailures) >= 1
        /\ RemoteFailures[1].Reason # Nil)
        => /\ ret.kind = "error"
           /\ ret.err.msg = "failed to protect task: " \o Deref(RemoteFailures[1].Reason)

(***************************************************************************)
(* C2: in imperative mode, when the ECS call answers without error, the     *)
(* call returns nil in every case other than protect with non-empty         *)
(* failures: for a disable request whatever the failures and their reasons, *)
(* and for empty failures with either value of protect.                     *)
(***************************************************************************)
C2_SucceedsOtherwise ==
    (Imperative /\ Done /\ RemoteAnswered
        /\ ~(input.Protect /\ Len(RemoteFailures) > 0))
        => ret.kind = "ok" /\ ret.err = NoErr

C2_Witness ==
    /\ Imperative /\ Done /\ RemoteAnswered
    /\ ~input.Protect
    /\ Len(RemoteFailures) >= 2
    /\ RemoteFailures[1].Reason = Nil
    /\ RemoteFailures[2].Reason = Ptr("X")
    /\ ret.kind = "ok"

(***************************************************************************)
(* C3: in value-returning mode the caller receives exactly the pair the     *)
(* ECS call returned (same protected tasks, same failures, same order), and *)
(* an answer that carries failures is not an error, for both values of      *)
(* protect.                                                                 *)
(***************************************************************************)
C3_RawResultReturned ==
    (ValueReturning /\ Done /\ output # Nil)
        => /\ ret.out = Deref(output).out
           /\ ret.err = Deref(output).err
           /\ (Deref(output).err = NoErr => ret.kind = "ok")

C3_Witness ==
    /\ ValueReturning /\ Done /\ RemoteAnswered
    /\ input.Protect
    /\ Len(RemoteFailures) >= 2
    /\ RemoteFailures[1].Reason # RemoteFailures[2].Reason
    /\ Deref(ret.out).Failures = RemoteFailures
    /\ ret.kind = "ok"

(***************************************************************************)
(* C4: in both entry points, when the caller supplies an identity in the    *)
(* input, it is used directly and GetTaskArn is never invoked: no metadata  *)
(* request, no environment lookup, hence no configuration, network or       *)
(* decode error.                                                            *)
(***************************************************************************)
C4_SuppliedIdentitySkipsResolver ==
    IdentitySupplied
        => /\ fetched = <<>>
           /\ arnRet = Nil
           /\ ret.err.kind \notin {"config", "network", "read", "decode"}
           /\ (requests # <<>> => metadata = input.Metadata)

\* The value-returning entry point alone does what C4 states.
SuppliedIdentitySkipsResolverV2 ==
    (ValueReturning /\ IdentitySupplied)
        => /\ fetched = <<>>
           /\ arnRet = Nil
           /\ ret.err.kind \notin {"config", "network", "read", "decode"}
           /\ (requests # <<>> => metadata = input.Metadata)

(***************************************************************************)
(* C5: GetTaskArn, in both generations, returns the error "unable to        *)
(* retrieve Task ARN - can't get Metadata URI" and no identity whenever the *)
(* environment variable is unset and no non-empty override is given, and    *)
(* does so before any HTTP request is issued.                               *)
(***************************************************************************)
C5_UnsetEnvIsConfigurationError ==
    (pc # "start" /\ ~UsesSupplied /\ env = Nil /\ override = "")
        => /\ Done
           /\ ret.kind = "error"
           /\ ret.err.msg = "unable to retrieve Task ARN - can't get Metadata URI"
           /\ ret.md = Nil
           /\ arnRet # Nil /\ Deref(arnRet).md = Nil
           /\ fetched = <<>>
           /\ httpRes = Nil

C5_Witness ==
    /\ Done /\ mode = "v2" /\ op = "GetTaskArn"
    /\ env = Nil /\ override = ""
    /\ ret.err = ErrNoMetadataURI
    /\ fetched = <<>>

(***************************************************************************)
(* C6: in every invocation of UpdateTaskProtection the calls happen in a    *)
(* fixed order without retries: at most one metadata GET, at most one ECS   *)
(* call and only after an identity is held, exactly one ECS call once an    *)
(* identity is held, and none when GetTaskArn fails, whose error is what    *)
(* the caller receives.                                                     *)
(***************************************************************************)
C6_SingleOrderedCalls ==
    op = "UpdateTaskProtection"
        => /\ Len(fetched) <= 1
           /\ Len(requests) <= 1
           /\ (requests # <<>> => (UsesSupplied \/ IdentityResolved) /\ metadata # Nil)
           /\ (requests # <<>> /\ fetched # <<>> => FetchAnswered)
           /\ (IdentityResolved \/ (UsesSupplied /\ pc # "start") => Len(requests) = 1)
           /\ (IdentityFailed
                 => /\ requests = <<>>
                    /\ output = Nil
                    /\ Done
                    /\ ret.kind = "error"
                    /\ ret.err = Deref(arnRet).err)

C6_Witness ==
    /\ op = "UpdateTaskProtection" /\ Done
    /\ Len(fetched) = 1
    /\ IdentityResolved
    /\ Len(requests) = 1
    /\ RemoteAnswered

C6_WitnessFailed ==
    /\ op = "UpdateTaskProtection" /\ Done
    /\ Len(fetched) = 1
    /\ IdentityFailed
    /\ requests = <<>>

(***************************************************************************)
(* C7: the caller's cancellation reaches both network operations in both    *)
(* entry points: a context done before the metadata GET completes, or       *)
(* before the ECS call completes, ends the invocation with the cancellation *)
(* error, never with success, and a pending GET is not awaited further.     *)
(***************************************************************************)
C7_CancellationPropagated ==
    op = "UpdateTaskProtection"
        => /\ (cancelAtFetch => Deref(httpRes).err = ErrCanceled)
           /\ (Done /\ (cancelAtFetch \/ cancelAtRemote)
                 => ret.kind = "error" /\ ret.err = ErrCanceled)

\* The value-returning entry point alone does what C7 states.
CancellationPropagatedV2 ==
    mode = "v2"
        => /\ (cancelAtFetch => Deref(httpRes).err = ErrCanceled)
           /\ (Done /\ (cancelAtFetch \/ cancelAtRemote)
                 => ret.kind = "error" /\ ret.err = ErrCanceled)

(***************************************************************************)
(* C8: the one ECS request is a pass-through of its inputs: the cluster is  *)
(* the identity's cluster, the task list is exactly the identity's task     *)
(* ARN, the flag is input.Protect and the expiry is input.ExpiresInMinutes  *)
(* as given, nil staying nil and values outside [1, 2880] forwarded; empty  *)
(* cluster and task strings are forwarded too.                              *)
(***************************************************************************)
IdentityInUse ==
    IF UsesSupplied THEN Deref(input.Metadata) ELSE Deref(Deref(arnRet).md)

C8_RequestIsPassThrough ==
    (op = "UpdateTaskProtection" /\ requests # <<>>)
        => /\ Len(requests) = 1
           /\ requests[1].Cluster = Ptr(IdentityInUse.Cluster)
           /\ requests[1].Tasks = <<IdentityInUse.TaskARN>>
           /\ requests[1].ProtectionEnabled = input.Protect
           /\ requests[1].ExpiresInMinutes = input.ExpiresInMinutes

C8_Witness ==
    /\ op = "UpdateTaskProtection" /\ Len(requests) = 1
    /\ input.ExpiresInMinutes = Ptr(2881)
    /\ requests[1].ExpiresInMinutes = Ptr(2881)
    /\ requests[1].Cluster = Ptr("")
    /\ requests[1].Tasks = <<"t1">>

C8_WitnessAbsent ==
    /\ op = "UpdateTaskProtection" /\ Len(requests) = 1
    /\ requests[1].ExpiresInMinutes = Nil
    /\ requests[1].Tasks = <<"">>

(***************************************************************************)
(* C9: GetTaskArn returns an error and no identity whenever the GET does    *)
(* not succeed, a non-success HTTP status included: an identity comes only  *)
(* from a successful response, never from the body of a non-success one.    *)
(***************************************************************************)
C9_NonSuccessIsError ==
    (arnRet # Nil /\ httpRes # Nil
        /\ (Deref(httpRes).err # NoErr \/ Deref(httpRes).status \notin 200..299))
        => Deref(arnRet).md = Nil /\ Deref(arnRet).err # NoErr

\* A GET that returns an error does end GetTaskArn with that error.
TransportErrorIsError ==
    (arnRet # Nil /\ httpRes # Nil /\ Deref(httpRes).err # NoErr)
        => Deref(arnRet).md = Nil /\ Deref(arnRet).err = Deref(httpRes).err

(***************************************************************************)
(* C10: every invocation ends by returning exactly one of a value or an     *)
(* error: GetTaskArn never returns a nil identity with a nil error, so      *)
(* UpdateTaskProtection never dereferences a nil identity, and imperative   *)
(* mode never dereferences a nil failure reason.                            *)
(***************************************************************************)
C10_NoNilDereference ==
    /\ ret.kind # "panic"
    /\ (arnRet # Nil => (Deref(arnRet).err = NoErr <=> Deref(arnRet).md # Nil))
    /\ (Done /\ op = "GetTaskArn" => (ret.err = NoErr <=> ret.md # Nil))
====
